---- MODULE Spec2Model ----
(***************************************************************************)
(* A model of process.py: the reconciliation of the official per-county    *)
(* totals (detail.xml files) with the audit (RLA) batch totals of the      *)
(* Georgia 2020 presidential election.                                     *)
(*                                                                         *)
(* Text is modelled as a sequence of code points, so that upper(),         *)
(* startswith(), "in", split() and the ordering of str are computed and    *)
(* not assumed.  Decimal text (CSV cells, XML attributes) is a sequence of *)
(* digit code points and int() parses it.  A dict is a record              *)
(* [keys, map]: keys is the insertion order, map the content.              *)
(*                                                                         *)
(* An intermediate value that is used more than once is passed as the      *)
(* argument of a local operator (LET Op(x) == ... IN Op(value)), so that   *)
(* it is evaluated once; "f @@ <<>>" and "s \o <<>>" are f and s, and      *)
(* make TLC compute the function or sequence once instead of at each use. *)
(***************************************************************************)
EXTENDS Integers, Sequences, FiniteSets, TLC

\* ------------------------------------------------------------------------
\* Bounds of the model (not program constants).
\* ------------------------------------------------------------------------
MaxRows == 2

MaxRuns == 2

\* ------------------------------------------------------------------------
\* Program constants.
\* ------------------------------------------------------------------------
VOTE_TOTAL_KEYS == <<"TBJ", "BC", "Und", "Ovr">>

RLA_KEYS == VOTE_TOTAL_KEYS \o <<"InvW", "ValW">>

BC_DELTA_INDEX == -3

\* assert len(rla_totals) == 159
EXPECTED_COUNTY_COUNT == 159

\* gwinnett_totals[key] -= 119461
GWINNETT_CARD2 == 119461

\* if len(row) != 10
ROW_COLUMNS == 10

\* 'ALL'
ALL == <<65,76,76>>

\* 'Gwinnett'
GWINNETT == <<71,119,105,110,110,101,116,116>>

\* 'President of the United States'
CONTEST_PREFIX ==
  <<80,114,101,115,105,100,101,110,116,32,111,102,32,116,104,101,32,
    85,110,105,116,101,100,32,83,116,97,116,101,115>>

\* 'Trump', 'Biden', 'Jorgensen'
TRUMP == <<84,114,117,109,112>>

BIDEN == <<66,105,100,101,110>>

JORGENSEN == <<74,111,114,103,101,110,115,101,110>>

\* ------------------------------------------------------------------------
\* Python built-ins used by the program, on code-point text.
\* ------------------------------------------------------------------------
SeqToSet(s) == {s[i] : i \in 1..Len(s)}

MinOf(S) == CHOOSE x \in S : \A y \in S : x <= y

MaxOf(S) == CHOOSE x \in S : \A y \in S : y <= x

abs(x) == IF x < 0 THEN -x ELSE x

\* str.upper() on ASCII letters.
upper(s) == [i \in 1..Len(s) |-> IF s[i] >= 97 /\ s[i] <= 122 THEN s[i] - 32 ELSE s[i]]

\* str.replace(old, new) for single characters.
replace(s, old, new) == [i \in 1..Len(s) |-> IF s[i] = old THEN new ELSE s[i]]

\* A startswith that ignores case.
startswith_ignore_case(s, prefix) ==
  /\ Len(s) >= Len(prefix)
  /\ upper(SubSeq(s, 1, Len(prefix))) = upper(prefix)

\* str.startswith(prefix)
startswith(s, prefix) ==
  /\ Len(s) >= Len(prefix)
  /\ SubSeq(s, 1, Len(prefix)) = prefix

\* sub in s
contains(s, sub) ==
  \E i \in 0..(Len(s) - Len(sub)) : SubSeq(s, i + 1, i + Len(sub)) = sub

\* The ordering of str: a < b, by code point, a proper prefix first.
StrLess(a, b) ==
  LET n == IF Len(a) < Len(b) THEN Len(a) ELSE Len(b)
      Decide(diff) == IF diff = {} THEN Len(a) < Len(b)
                      ELSE a[MinOf(diff)] < b[MinOf(diff)]
  IN  Decide({i \in 1..n : a[i] # b[i]})

\* int(text) for decimal digits.
RECURSIVE int(_)
int(s) ==
  IF Len(s) = 0 THEN 0
  ELSE 10 * int(SubSeq(s, 1, Len(s) - 1)) + (s[Len(s)] - 48)

\* sum(list)
RECURSIVE sum(_)
sum(s) ==
  IF Len(s) = 0 THEN 0
  ELSE IF Len(s) = 1 THEN s[1]
  ELSE LET h == Len(s) \div 2
       IN  sum(SubSeq(s, 1, h)) + sum(SubSeq(s, h + 1, Len(s)))

\* The list whose element at place rank[x] + 1 is x, for the ranks 0..n-1.
ByRank(S, rank) ==
  LET Place(at) == [p \in 1..Cardinality(S) |-> at[p - 1]]
  IN  Place([r \in {rank[x] : x \in S} |-> CHOOSE x \in S : rank[x] = r] @@ <<>>)

\* sorted(S): the ascending list of a collection S of distinct str.
sorted(S) == ByRank(S, [x \in S |-> Cardinality({y \in S : StrLess(y, x)})] @@ <<>>)

\* {key: 0 for key in keys}
make_zero_vote_totals(keys) == [k \in keys |-> 0]

\* ------------------------------------------------------------------------
\* dict helpers: [keys |-> insertion order, map |-> content].
\* ------------------------------------------------------------------------
HasKey(d, k) == k \in DOMAIN d.map

\* The dict after d[ks[i]] = vs[i] for i = 1, 2, ... on an empty dict: a
\* key keeps the place of its first assignment and the value of its last.
DictOf(ks, vs) ==
  LET n == Len(ks)
      Build(first, last) ==
        [keys |-> LET Keys(ordered) == [p \in 1..Len(ordered) |-> ks[ordered[p]]]
                  IN  Keys(ByRank(first, [i \in first |-> Cardinality({j \in first : j < i})] @@ <<>>)),
         map  |-> [k \in DOMAIN last |-> vs[last[k]]]]
  IN  Build({i \in 1..n : \A j \in 1..(i - 1) : ks[j] # ks[i]},
            [k \in SeqToSet(ks) |-> MaxOf({i \in 1..n : ks[i] = k})] @@ <<>>)

\* d[k] = v : a new key goes last, an existing key keeps its place.
DictSet(d, k, v) ==
  [keys |-> IF HasKey(d, k) THEN d.keys ELSE Append(d.keys, k),
   map  |-> [x \in (DOMAIN d.map) \cup {k} |-> IF x = k THEN v ELSE d.map[x]]]

\* json.dump(data, sort_keys=True) followed by json.load: the content is
\* kept and the keys come back in sorted order.
write_json(data) == [keys |-> sorted(DOMAIN data.map), map |-> data.map]

\* ------------------------------------------------------------------------
\* Results of a call: a value, or the exception it raised.
\* ------------------------------------------------------------------------
Ok(v) == [ok |-> TRUE, val |-> v]

Raise(type, info) == [ok |-> FALSE, type |-> type, info |-> info]

\* ------------------------------------------------------------------------
\* County registry (input-data/counties.json).
\* ------------------------------------------------------------------------

\* str.split(sep) for a single-character separator.
RECURSIVE split(_, _)
split(s, sep) ==
  LET Cut(at) ==
        IF at = {} THEN <<s>>
        ELSE <<SubSeq(s, 1, MinOf(at) - 1)>> \o split(SubSeq(s, MinOf(at) + 1, Len(s)), sep)
  IN  Cut({i \in 1..Len(s) : s[i] = sep})

\* line = 'Appling|105371|271560|...': the name, with '_' turned into ' '.
parse_county(line) ==
  LET Parts(parts) == [name |-> replace(parts[1], 95, 32), id1 |-> parts[2], id2 |-> parts[3]]
  IN  Parts(split(line, 124))

\* The (i, name) pairs of the registry, i 0-based: element i + 1.
iter_counties(counties_data) ==
  [k \in 1..Len(counties_data) |->
     [i |-> k - 1, name |-> parse_county(counties_data[k]).name]] \o <<>>

\* dict: normalized (upper-case) name -> name; a later line overwrites.
get_county_names(counties_data) ==
  LET Names(cs) ==
        DictOf([k \in 1..Len(cs) |-> upper(cs[k].name)] \o <<>>,
               [k \in 1..Len(cs) |-> cs[k].name] \o <<>>)
  IN  Names(iter_counties(counties_data))

\* dict: 0-based index -> name.
get_index_to_county_name(counties_data) ==
  LET Index(cs) == [i \in 0..(Len(cs) - 1) |-> cs[i + 1].name]
  IN  Index(iter_counties(counties_data))

\* ------------------------------------------------------------------------
\* Official totals (downloads/detailxml/NNN-Name.xml).
\* An XML file is [ballotsCast, contest, voteTypes, choices]: the
\* VoterTurnout attribute and the first Contest element.
\* ------------------------------------------------------------------------

\* f'{i:03}-{name}.xml', the name with ' ' turned into '_'.
download_filename(i, name) ==
  <<48 + (i \div 100), 48 + ((i \div 10) % 10), 48 + (i % 10), 45>>
    \o replace(name, 32, 95) \o <<46, 120, 109, 108>>

\* path.suffix is not empty: a '.' after the first character and before
\* the last.
has_suffix(filename) == \E i \in 2..(Len(filename) - 1) : filename[i] = 46

\* The (path, name) pairs of the download directory, in sorted path order,
\* the files without suffix skipped; KeyError at the first file whose index
\* is not in the registry.
iter_download_dir(dir, counties_data) ==
  LET Pairs(index_to_name, paths) ==
        LET Named(index) ==
              LET First(unknown) ==
                    IF unknown # {} THEN Raise("KeyError", [at |-> "iter_download_dir", path |-> paths[MinOf(unknown)]])
                    ELSE Ok([k \in 1..Len(paths) |->
                               [path |-> paths[k], name |-> index_to_name[index[k]]]] \o <<>>)
              IN  First({k \in 1..Len(paths) : index[k] \notin DOMAIN index_to_name})
        IN  Named([k \in 1..Len(paths) |-> int(split(paths[k], 45)[1])] \o <<>>)
  IN  Pairs(get_index_to_county_name(counties_data) @@ <<>>,
            sorted({path \in DOMAIN dir : has_suffix(path)}))

get_ballots_cast(root) == int(root.ballotsCast)

VoteTypeMapping == [Overvotes |-> "Ovr", Undervotes |-> "Und"]

\* dict: 'Ovr'/'Und' -> votes, for the VoteType elements that are present
\* (the last one of a name counts); KeyError on any other VoteType name.
get_votes_by_vote_type(element) ==
  LET vts == element.voteTypes
      names == {vts[i].name : i \in 1..Len(vts)}
  IN  IF \E n \in names : n \notin DOMAIN VoteTypeMapping
      THEN Raise("KeyError", [at |-> "get_votes_by_vote_type"])
      ELSE Ok([key \in {VoteTypeMapping[n] : n \in names} |->
                 int(vts[MaxOf({i \in 1..Len(vts) : VoteTypeMapping[vts[i].name] = key})].votes)])

\* 'Trump' in name or 'Biden' in name or 'Jorgensen' in name
is_expected_candidate(name) ==
  contains(name, TRUMP) \/ contains(name, BIDEN) \/ contains(name, JORGENSEN)

\* A get_candidate_total without the assert on the choice names.
get_candidate_total_unchecked(contest) ==
  Ok(sum([i \in 1..Len(contest.choices) |-> int(contest.choices[i].totalVotes)]))

\* The sum of totalVotes over the Choice elements; AssertionError at the
\* first choice whose name has none of the three substrings.
get_candidate_total(contest) ==
  LET cs == contest.choices
  IN  IF \E i \in 1..Len(cs) : ~is_expected_candidate(cs[i].text)
      THEN Raise("AssertionError", [at |-> "get_candidate_total"])
      ELSE Ok(sum([i \in 1..Len(cs) |-> int(cs[i].totalVotes)]))

read_detailxml_file(root) ==
  LET Totals(bc, new_totals, tbj) ==
        IF ~new_totals.ok THEN new_totals
        ELSE IF ~tbj.ok THEN tbj
        ELSE Ok([key \in {"BC", "TBJ"} \cup DOMAIN new_totals.val |->
                   IF key = "TBJ" THEN tbj.val
                   ELSE IF key \in DOMAIN new_totals.val THEN new_totals.val[key]
                   ELSE bc])
  IN  IF ~startswith(root.contest, CONTEST_PREFIX)
      THEN Raise("RuntimeError", [at |-> "read_detailxml_file"])
      ELSE Totals(get_ballots_cast(root), get_votes_by_vote_type(root),
                  get_candidate_total(root))

\* The totals of the files, in directory order; the first file that fails
\* to parse raises RuntimeError('error reading: <path>').
read_official_scan(dir, counties_data) ==
  LET Scan(pairs) ==
        LET Collect(county_totals) ==
              LET First(failed) ==
                    IF failed # {}
                    THEN Raise("RuntimeError",
                               [at |-> "read_official_totals",
                                reading |-> pairs.val[MinOf(failed)].path,
                                cause |-> county_totals[MinOf(failed)].type])
                    ELSE Ok(DictOf([k \in 1..Len(pairs.val) |-> pairs.val[k].name] \o <<>>,
                                   [k \in 1..Len(pairs.val) |-> county_totals[k].val] \o <<>>))
              IN  First({k \in 1..Len(pairs.val) : ~county_totals[k].ok})
        IN  IF ~pairs.ok THEN pairs
            ELSE Collect([k \in 1..Len(pairs.val) |->
                            read_detailxml_file(dir[pairs.val[k].path])] \o <<>>)
  IN  Scan(iter_download_dir(dir, counties_data))

\* ------------------------------------------------------------------------
\* Audit (RLA) totals (input-data/audit-report-batch-results-lines.csv).
\* The file is a sequence of lines, the first one the header.
\* ------------------------------------------------------------------------

\* csv.reader on a line without quotes: the cells between the commas; an
\* empty line gives an empty row.
csv_reader(line) == IF Len(line) = 0 THEN <<>> ELSE split(line, 44)

\* An add_row_totals whose ballots cast leave out the last field, the
\* overvotes.
add_row_totals_without_overvotes(county_totals, row_totals) ==
  [key \in DOMAIN county_totals |->
     county_totals[key] +
       CASE key = "TBJ"  -> sum(SubSeq(row_totals, 1, 3))
         [] key = "BC"   -> sum(SubSeq(row_totals, 1, 6))
         [] key = "InvW" -> row_totals[4]
         [] key = "ValW" -> row_totals[5]
         [] key = "Und"  -> row_totals[6]
         [] key = "Ovr"  -> row_totals[7]
         [] OTHER        -> 0]

\* The six += of the row loop, row_totals being the 7 parsed numbers.
add_row_totals(county_totals, row_totals) ==
  [key \in DOMAIN county_totals |->
     county_totals[key] +
       CASE key = "TBJ"  -> sum(SubSeq(row_totals, 1, 3))
         [] key = "BC"   -> sum(row_totals)
         [] key = "InvW" -> row_totals[4]
         [] key = "ValW" -> row_totals[5]
         [] key = "Und"  -> row_totals[6]
         [] key = "Ovr"  -> row_totals[7]
         [] OTHER        -> 0]

\* A read_rla_scan that numbers the data rows from 0 (enumerate without
\* start=1).
read_rla_scan_from_zero(lines, counties_data) ==
  LET Scan(normalized_to_name, reader) ==
        LET names == [k \in 1..Len(normalized_to_name.keys) |->
                        normalized_to_name.map[normalized_to_name.keys[k]]] \o <<>>
            zero == DictOf(names, [k \in 1..Len(names) |->
                                     make_zero_vote_totals(SeqToSet(RLA_KEYS))] \o <<>>)
            RECURSIVE loop(_, _)
            loop(i, totals) ==
              IF i > Len(reader) THEN Ok(totals)
              ELSE LET Row(row) ==
                         IF Len(row) # ROW_COLUMNS
                         THEN Raise("RuntimeError", [at |-> "read_rla_totals", line |-> i - 1])
                         ELSE IF ~HasKey(normalized_to_name, row[1])
                         THEN Raise("KeyError", [at |-> "read_rla_totals", line |-> i - 1])
                         ELSE loop(i + 1,
                                [totals EXCEPT !.map[normalized_to_name.map[row[1]]] =
                                   add_row_totals(@, [k \in 1..(Len(row) - 3) |->
                                                        int(row[k + 3])] \o <<>>)])
                   IN  Row(csv_reader(reader[i]))
        IN  loop(1, zero)
  IN  Scan(get_county_names(counties_data), Tail(lines))

\* The totals of the rows; RuntimeError('error at line: i') at the first
\* data row i (1-based, header not counted) that has not 10 cells, KeyError
\* at the first row whose county is not in the registry.
read_rla_scan(lines, counties_data) ==
  LET Scan(normalized_to_name, reader) ==
        LET names == [k \in 1..Len(normalized_to_name.keys) |->
                        normalized_to_name.map[normalized_to_name.keys[k]]] \o <<>>
            zero == DictOf(names, [k \in 1..Len(names) |->
                                     make_zero_vote_totals(SeqToSet(RLA_KEYS))] \o <<>>)
            RECURSIVE loop(_, _)
            loop(i, totals) ==
              IF i > Len(reader) THEN Ok(totals)
              ELSE LET Row(row) ==
                         IF Len(row) # ROW_COLUMNS
                         THEN Raise("RuntimeError", [at |-> "read_rla_totals", line |-> i])
                         ELSE IF ~HasKey(normalized_to_name, row[1])
                         THEN Raise("KeyError", [at |-> "read_rla_totals", line |-> i])
                         ELSE loop(i + 1,
                                [totals EXCEPT !.map[normalized_to_name.map[row[1]]] =
                                   add_row_totals(@, [k \in 1..(Len(row) - 3) |->
                                                        int(row[k + 3])] \o <<>>)])
                   IN  Row(csv_reader(reader[i]))
        IN  loop(1, zero)
  IN  Scan(get_county_names(counties_data), Tail(lines))

\* ------------------------------------------------------------------------
\* The Gwinnett correction of main.
\* ------------------------------------------------------------------------
\* A correction that leaves the undervotes alone.
gwinnett_correction_bc_only(rla) ==
  [rla EXCEPT !.map[GWINNETT] =
     [key \in DOMAIN @ |-> IF key \in {"BC"} THEN @[key] - GWINNETT_CARD2 ELSE @[key]]]

gwinnett_correction(rla) ==
  [rla EXCEPT !.map[GWINNETT] =
     [key \in DOMAIN @ |-> IF key \in {"BC", "Und"} THEN @[key] - GWINNETT_CARD2 ELSE @[key]]]

\* ------------------------------------------------------------------------
\* The "ALL" pseudo-county and the report.
\* ------------------------------------------------------------------------

\* A compute_all_counties that leaves the first county out of the sums.
compute_all_counties_skip_first(totals) ==
  LET name == totals.keys[1]
      keys == DOMAIN totals.map[name]
      n == Len(totals.keys)
  IN  IF \E k \in 1..n : ~(DOMAIN totals.map[totals.keys[k]] \subseteq keys)
      THEN Raise("KeyError", [at |-> "compute_all_counties"])
      ELSE Ok([key \in keys |->
                 sum([k \in 1..(n - 1) |->
                        IF key \in DOMAIN totals.map[totals.keys[k + 1]]
                        THEN totals.map[totals.keys[k + 1]][key] ELSE 0] \o <<>>)] @@ <<>>)

\* The category-wise sums, over the keys of the first county of the dict;
\* all_totals[key] += total raises KeyError when a county has a key that
\* the first county has not.
compute_all_counties(totals) ==
  LET name == totals.keys[1]
      keys == DOMAIN totals.map[name]
      n == Len(totals.keys)
  IN  IF \E k \in 1..n : ~(DOMAIN totals.map[totals.keys[k]] \subseteq keys)
      THEN Raise("KeyError", [at |-> "compute_all_counties"])
      ELSE Ok([key \in keys |->
                 sum([k \in 1..n |->
                        IF key \in DOMAIN totals.map[totals.keys[k]]
                        THEN totals.map[totals.keys[k]][key] ELSE 0] \o <<>>)] @@ <<>>)

add_all_totals(totals) ==
  LET Add(all_totals) ==
        IF all_totals.ok THEN Ok(DictSet(totals, ALL, all_totals.val)) ELSE all_totals
  IN  Add(compute_all_counties(totals))

\* The ordering of the tuples (bool, int, str) that sort_key returns.
KeyLess(a, b) ==
  IF a[1] # b[1] THEN b[1]
  ELSE IF a[2] # b[2] THEN a[2] < b[2]
  ELSE StrLess(a[3], b[3])

\* A sort_key on the signed delta instead of its magnitude.
sort_key_signed(row, name) ==
  <<row[1] # ALL, -1 * row[Len(row) + 1 + BC_DELTA_INDEX], name>>

\* sort_key of write_output; name is the variable of the enclosing scope,
\* which holds the last name of the row loop when the rows are sorted.
sort_key(row, name) ==
  <<row[1] # ALL, -1 * abs(row[Len(row) + 1 + BC_DELTA_INDEX]), name>>

\* sorted(rows, key=...): ascending by key, and stable; ks[i] is the key
\* of rows[i].
sorted_rows(rows, ks) ==
  LET n == Len(rows)
      Place(ordered) == [p \in 1..n |-> rows[ordered[p]]] \o <<>>
  IN  Place(ByRank(1..n,
              [i \in 1..n |->
                 Cardinality({j \in 1..n :
                   \/ KeyLess(ks[j], ks[i])
                   \/ (~KeyLess(ks[i], ks[j]) /\ j < i)})] @@ <<>>))

\* The row of one county: name, official values, audit values, deltas.
\* totals[key] raises KeyError when the key is missing.
report_row(name, official_county_totals, rla_county_totals) ==
  LET key_count == Len(VOTE_TOTAL_KEYS)
      Deltas(row) == row \o [i \in 1..key_count |-> row[1 + i + key_count] - row[1 + i]]
  IN  IF \/ \E i \in 1..key_count : VOTE_TOTAL_KEYS[i] \notin DOMAIN official_county_totals
         \/ \E i \in 1..Len(RLA_KEYS) : RLA_KEYS[i] \notin DOMAIN rla_county_totals
      THEN Raise("KeyError", [at |-> "write_output", name |-> name])
      ELSE Ok(Deltas(<<name>>
                \o [i \in 1..key_count |-> official_county_totals[VOTE_TOTAL_KEYS[i]]]
                \o [i \in 1..Len(RLA_KEYS) |-> rla_county_totals[RLA_KEYS[i]]]))

report_headers ==
  <<<<"County">>>>
    \o [i \in 1..Len(VOTE_TOTAL_KEYS) |-> <<"Ofc", VOTE_TOTAL_KEYS[i]>>]
    \o [i \in 1..Len(RLA_KEYS) |-> <<"RLA", RLA_KEYS[i]>>]
    \o [i \in 1..Len(VOTE_TOTAL_KEYS) |-> <<"Delta", VOTE_TOTAL_KEYS[i]>>]

\* write_output: official and rla are the two dicts as the call leaves
\* them ("ALL" added), also when it raises; file is the content of
\* output.csv.
write_output(official_totals, rla_totals) ==
  LET Report(o, r) ==
        LET Rows(names) ==
              LET Write(made) ==
                    IF \E k \in 1..Len(names) : ~made[k].ok
                    THEN [ok |-> FALSE, type |-> "KeyError", official |-> o.val, rla |-> r.val]
                    ELSE [ok |-> TRUE, official |-> o.val, rla |-> r.val,
                          file |-> [headers |-> report_headers,
                                    rows |-> sorted_rows(
                                      [k \in 1..Len(names) |-> made[k].val] \o <<>>,
                                      [k \in 1..Len(names) |->
                                         sort_key(made[k].val, names[Len(names)])] \o <<>>)]]
              IN  Write([k \in 1..Len(names) |->
                           IF ~HasKey(r.val, names[k]) THEN Raise("KeyError", [at |-> "write_output", name |-> names[k]])
                           ELSE report_row(names[k], o.val.map[names[k]], r.val.map[names[k]])]
                        \o <<>>)
        IN  IF ~o.ok
            THEN [ok |-> FALSE, type |-> o.type, official |-> official_totals, rla |-> rla_totals]
            ELSE IF ~r.ok
            THEN [ok |-> FALSE, type |-> r.type, official |-> o.val, rla |-> rla_totals]
            ELSE Rows(sorted(DOMAIN o.val.map))
  IN  Report(add_all_totals(official_totals), add_all_totals(rla_totals))

\* ------------------------------------------------------------------------
\* Inputs: the files the program reads.
\* ------------------------------------------------------------------------
NoFile == [exists |-> FALSE]

None == [none |-> TRUE]

\* The name of line i (0-based) of counties.json: 'Gwinnett', 'Ben_Hill',
\* and two-letter names otherwise, not in alphabetical order.
RegistryName(i) ==
  IF i = 66 THEN GWINNETT
  ELSE IF i = 9 THEN <<66,101,110,95,72,105,108,108>>
  ELSE <<66 + ((i + 5) % 13), 97 + (i \div 13)>>

\* 'Name|1|2'
RegistryLine(i) == RegistryName(i) \o <<124,49,124,50>>

FullRegistry == [k \in 1..EXPECTED_COUNTY_COUNT |-> RegistryLine(k - 1)]

\* A registry that lacks its last county.
ShortRegistry == SubSeq(FullRegistry, 1, EXPECTED_COUNTY_COUNT - 1)

\* 'President of the United States/Presidente de los Estados Unidos'
ContestName == CONTEST_PREFIX \o
  <<47,80,114,101,115,105,100,101,110,116,101,32,100,101,32,108,111,115,32,
    69,115,116,97,100,111,115,32,85,110,105,100,111,115>>

\* The detail.xml of county i (0-based) as downloaded.
DefaultXml(i) ==
  [ballotsCast |-> <<48 + (i % 3)>>,
   contest     |-> ContestName,
   voteTypes   |-> <<[name |-> "Undervotes", votes |-> <<48 + (i % 2)>>],
                     [name |-> "Overvotes", votes |-> <<48>>]>>,
   choices     |-> <<[text |-> <<68,111,110,97,108,100,32,74,46,32,84,114,117,109,112,32,40,73,41,32,40,82,101,112,41>>,
                      totalVotes |-> <<48 + (i % 2)>>],
                     [text |-> <<74,111,115,101,112,104,32,82,46,32,66,105,100,101,110,32,40,68,101,109,41>>,
                      totalVotes |-> <<48>>],
                     [text |-> <<74,111,32,74,111,114,103,101,110,115,101,110,32,40,76,105,98,41>>,
                      totalVotes |-> <<48>>]>>]

\* Other contents of a detail.xml.
XmlVariant(v, xml) ==
  CASE v = "default"   -> xml
    [] v = "governor"  -> [xml EXCEPT !.contest = <<71,111,118,101,114,110,111,114>>]
    [] v = "lowercase" -> [xml EXCEPT !.contest =
         <<112,114,101,115,105,100,101,110,116,32,111,102,32,116,104,101,32,117,110,105,116,101,100,32,115,116,97,116,101,115>>]
    [] v = "no_ovr"    -> [xml EXCEPT !.voteTypes = <<xml.voteTypes[1]>>]
    [] v = "blank_vt"  -> [xml EXCEPT !.voteTypes = Append(@, [name |-> "Blank", votes |-> <<49>>])]
    [] v = "write_in"  -> [xml EXCEPT !.choices =
         Append(@, [text |-> <<87,114,105,116,101,45,105,110>>, totalVotes |-> <<53>>])]
    [] v = "jorgenson" -> [xml EXCEPT !.choices[3].text = <<74,111,32,74,111,114,103,101,110,115,111,110,32,40,76,105,98,41>>]
    [] v = "big"       -> [xml EXCEPT !.ballotsCast = <<55>>]

FailingVariants == {"governor", "lowercase", "blank_vt", "write_in", "jorgenson"}

\* The two counties whose file varies: lines 0 and 9 of the registry.
VariedIndex == <<0, 9>>

\* '.DS_Store'
DS_STORE == <<46,68,83,95,83,116,111,114,101>>

\* downloads/detailxml after download_county_results: one file per line of
\* the registry, and a file without suffix.
DownloadDir(counties_data, v) ==
  LET Dir(cs) ==
        [f \in {download_filename(cs[k].i, cs[k].name) : k \in 1..Len(cs)} \cup {DS_STORE} |->
           IF f = DS_STORE THEN <<>>
           ELSE LET i == int(SubSeq(f, 1, 3))
                IN  IF i = VariedIndex[1] THEN XmlVariant(v[1], DefaultXml(i))
                    ELSE IF i = VariedIndex[2] THEN XmlVariant(v[2], DefaultXml(i))
                    ELSE DefaultXml(i)] @@ <<>>
  IN  Dir(iter_counties(counties_data))

\* The pairs of variants whose files all parse.
XmlOk == {<<"default", "default">>, <<"no_ovr", "default">>,
          <<"default", "no_ovr">>, <<"big", "default">>}

XmlAll == XmlOk
  \cup {<<"default", f>> : f \in FailingVariants}
  \cup {<<f, "default">> : f \in FailingVariants}
  \cup {<<"governor", "write_in">>, <<"write_in", "governor">>, <<"no_ovr", "governor">>}

\* Lines of the audit CSV.
CsvHeader == <<67,111,117,110,116,121,44,66,97,116,99,104,44,84,121,112,101,44,84,44,66,44,74,44,73,110,118,87,44,86,97,108,87,44,85,110,100,44,79,118,114>>

CsvRows == {
  \* GWINNETT,b1,Election Day,1,2,4,8,16,32,64
  <<71,87,73,78,78,69,84,84,44,98,49,44,69,108,101,99,116,105,111,110,32,68,97,121,44,49,44,50,44,52,44,56,44,49,54,44,51,50,44,54,52>>,
  \* GWINNETT,b2,Absentee,0,0,0,0,0,119463,0
  <<71,87,73,78,78,69,84,84,44,98,50,44,65,98,115,101,110,116,101,101,44,48,44,48,44,48,44,48,44,48,44,49,49,57,52,54,51,44,48>>,
  \* BEN HILL,b3,Advance,2,1,0,1,0,3,1
  <<66,69,78,32,72,73,76,76,44,98,51,44,65,100,118,97,110,99,101,44,50,44,49,44,48,44,49,44,48,44,51,44,49>>,
  \* BEN HILL,b4,Advance,2,1,0,1,0,3  (9 cells)
  <<66,69,78,32,72,73,76,76,44,98,52,44,65,100,118,97,110,99,101,44,50,44,49,44,48,44,49,44,48,44,51>>,
  \* XX,b5,Advance,1,1,1,1,1,1,1  (not a county)
  <<88,88,44,98,53,44,65,100,118,97,110,99,101,44,49,44,49,44,49,44,49,44,49,44,49,44,49>>}

RECURSIVE SeqsUpTo(_, _)
SeqsUpTo(S, n) ==
  IF n = 0 THEN {<<>>}
  ELSE LET shorter == SeqsUpTo(S, n - 1)
       IN  shorter \cup {Append(q, x) : q \in shorter, x \in S}

CsvFiles == {<<CsvHeader>> \o q : q \in SeqsUpTo(CsvRows, MaxRows)}

DefaultCsv == <<CsvHeader>> \o
  <<<<71,87,73,78,78,69,84,84,44,98,50,44,65,98,115,101,110,116,101,101,44,48,44,48,44,48,44,48,44,48,44,49,49,57,52,54,51,44,48>>,
    <<66,69,78,32,72,73,76,76,44,98,51,44,65,100,118,97,110,99,101,44,50,44,49,44,48,44,49,44,48,44,51,44,49>>>>

\* cache/detailxml.json as a run with the short registry leaves it.
StaleOfficialCache ==
  write_json(read_official_scan(DownloadDir(ShortRegistry, <<"default", "default">>),
                                ShortRegistry).val)

\* The combinations of input files the runs start from.
InputChoices ==
       {[reg |-> FullRegistry, xml |-> x, lines |-> c, cache |-> NoFile] :
          x \in XmlOk, c \in CsvFiles}
  \cup {[reg |-> FullRegistry, xml |-> x, lines |-> DefaultCsv, cache |-> NoFile] :
          x \in XmlAll}
  \cup {[reg |-> ShortRegistry, xml |-> <<"default", "default">>, lines |-> DefaultCsv,
         cache |-> NoFile]}
  \cup {[reg |-> FullRegistry, xml |-> <<"default", "default">>, lines |-> DefaultCsv,
         cache |-> StaleOfficialCache]}

\* ------------------------------------------------------------------------
\* State.
\* ------------------------------------------------------------------------
VARIABLES
  counties_data,    \* input-data/counties.json: the registry lines
  downloads,        \* downloads/detailxml: file name -> XML
  csv_lines,        \* the audit CSV: header and batch lines
  cache_official,   \* cache/detailxml.json, or NoFile
  cache_rla,        \* cache/rla-totals.json, or NoFile
  output_csv,       \* output.csv, or NoFile
  run,              \* how many times main was started
  pc,               \* where main is
  official_totals,  \* main's official_totals, None before it is read
  rla_totals,       \* main's rla_totals, None before it is read
  error,            \* the exception that ended the run, or None
  log               \* the _log.info messages of the current run

vars == <<counties_data, downloads, csv_lines, cache_official, cache_rla, output_csv,
          run, pc, official_totals, rla_totals, error, log>>

files == <<counties_data, downloads, csv_lines>>

Init ==
  /\ \E in \in InputChoices :
       /\ counties_data = in.reg
       /\ downloads = DownloadDir(in.reg, in.xml)
       /\ csv_lines = in.lines
       /\ cache_official = in.cache
  /\ cache_rla = NoFile
  /\ output_csv = NoFile
  /\ run = 0
  /\ pc = "idle"
  /\ official_totals = None
  /\ rla_totals = None
  /\ error = None
  /\ log = <<>>

\* An uncaught exception ends the run.
Abort(e) ==
  /\ error' = e
  /\ pc' = "aborted"

\* python process.py: main up to download_county_results, which finds every
\* file of the registry already downloaded.
main_start ==
  /\ pc \in {"idle", "done", "aborted"}
  /\ run < MaxRuns
  /\ LET Downloaded(cs) ==
           \A k \in 1..Len(cs) : download_filename(cs[k].i, cs[k].name) \in DOMAIN downloads
     IN  Downloaded(iter_counties(counties_data))
  /\ run' = run + 1
  /\ pc' = "read_official"
  /\ official_totals' = None
  /\ rla_totals' = None
  /\ error' = None
  /\ log' = <<>>
  /\ UNCHANGED <<files, cache_official, cache_rla, output_csv>>

\* official_totals = read_official_totals()
read_official_totals ==
  /\ pc = "read_official"
  /\ IF cache_official # NoFile
     THEN /\ official_totals' = cache_official
          /\ log' = Append(log, "using cached data: cache/detailxml.json")
          /\ pc' = "read_rla"
          /\ UNCHANGED <<cache_official, error>>
     ELSE LET Read(totals) ==
                IF totals.ok
                THEN /\ cache_official' = write_json(totals.val)
                     /\ official_totals' = totals.val
                     /\ log' = Append(log, "writing json: cache/detailxml.json")
                     /\ pc' = "read_rla"
                     /\ UNCHANGED error
                ELSE /\ Abort(totals)
                     /\ UNCHANGED <<cache_official, official_totals, log>>
          IN  Read(read_official_scan(downloads, counties_data))
  /\ UNCHANGED <<files, cache_rla, output_csv, run, rla_totals>>

\* rla_totals = read_rla_totals()
read_rla_totals ==
  /\ pc = "read_rla"
  /\ IF cache_rla # NoFile
     THEN /\ rla_totals' = cache_rla
          /\ log' = Append(log, "using cached data: cache/rla-totals.json")
          /\ pc' = "correct"
          /\ UNCHANGED <<cache_rla, error>>
     ELSE LET Read(totals) ==
                IF totals.ok
                THEN /\ cache_rla' = write_json(totals.val)
                     /\ rla_totals' = totals.val
                     /\ log' = Append(log, "writing json: cache/rla-totals.json")
                     /\ pc' = "correct"
                     /\ UNCHANGED error
                ELSE /\ Abort(totals)
                     /\ UNCHANGED <<cache_rla, rla_totals, log>>
          IN  Read(read_rla_scan(csv_lines, counties_data))
  /\ UNCHANGED <<files, cache_official, output_csv, run, official_totals>>

\* gwinnett_totals = rla_totals['Gwinnett'] and the two subtractions.
main_correction ==
  /\ pc = "correct"
  /\ IF HasKey(rla_totals, GWINNETT)
     THEN /\ rla_totals' = gwinnett_correction(rla_totals)
          /\ pc' = "check"
          /\ UNCHANGED error
     ELSE /\ Abort(Raise("KeyError", [at |-> "main"]))
          /\ UNCHANGED rla_totals
  /\ UNCHANGED <<files, cache_official, cache_rla, output_csv, run, official_totals, log>>

\* A check of the county count alone.
county_sets_agree_count_only(official, rla) ==
  Cardinality(DOMAIN rla.map) = EXPECTED_COUNTY_COUNT

\* assert len(rla_totals) == 159; assert set(rla_totals) == set(official_totals)
county_sets_agree(official, rla) ==
  /\ Cardinality(DOMAIN rla.map) = EXPECTED_COUNTY_COUNT
  /\ DOMAIN rla.map = DOMAIN official.map

main_asserts ==
  /\ pc = "check"
  /\ IF county_sets_agree(official_totals, rla_totals)
     THEN /\ pc' = "write_output"
          /\ UNCHANGED error
     ELSE Abort(Raise("AssertionError", [at |-> "main"]))
  /\ UNCHANGED <<files, cache_official, cache_rla, output_csv, run,
                 official_totals, rla_totals, log>>

\* write_output(official_totals, rla_totals=rla_totals)
main_write_output ==
  /\ pc = "write_output"
  /\ LET Write(out) ==
           /\ official_totals' = out.official
           /\ rla_totals' = out.rla
           /\ IF out.ok
              THEN /\ output_csv' = out.file
                   /\ log' = Append(log, "wrote: output.csv")
                   /\ pc' = "done"
                   /\ UNCHANGED error
              ELSE /\ Abort(Raise(out.type, [at |-> "write_output"]))
                   /\ UNCHANGED <<output_csv, log>>
     IN  Write(write_output(official_totals, rla_totals))
  /\ UNCHANGED <<files, cache_official, cache_rla, run>>

Next ==
  \/ main_start
  \/ read_official_totals
  \/ read_rla_totals
  \/ main_correction
  \/ main_asserts
  \/ main_write_output

Spec == Init /\ [][Next]_vars

\* ------------------------------------------------------------------------
\* What the properties below speak about.
\* ------------------------------------------------------------------------
Logged(message) == \E i \in 1..Len(log) : log[i] = message

\* The column of the report with the given header.
Col(prefix, key) == CHOOSE c \in 1..Len(report_headers) : report_headers[c] = <<prefix, key>>

\* The number of cells of a CSV line: one more than its commas.
Cells(line) == IF Len(line) = 0 THEN 0 ELSE 1 + Cardinality({p \in 1..Len(line) : line[p] = 44})

\* The batch lines of the audit CSV as [county, fields], fields the 7 numbers.
BatchRows ==
  [i \in 1..(Len(csv_lines) - 1) |->
     LET Parsed(cells) == [county |-> cells[1], fields |-> [k \in 1..7 |-> int(cells[k + 3])]]
     IN  Parsed(split(csv_lines[i + 1], 44))]

\* The numeric fields (1..7) that a category adds up.
CategoryFields ==
  [TBJ |-> {1, 2, 3}, BC |-> 1..7, InvW |-> {4}, ValW |-> {5}, Und |-> {6}, Ovr |-> {7}]

\* The total of a category over the batch rows of a county.
RawAudit(rows, name, key) ==
  sum([i \in 1..Len(rows) |->
         IF rows[i].county = upper(name)
         THEN sum([k \in 1..7 |-> IF k \in CategoryFields[key] THEN rows[i].fields[k] ELSE 0])
         ELSE 0])

\* The county names of the registry.
RegisteredNames == {replace(split(counties_data[k], 124)[1], 95, 32) : k \in 1..Len(counties_data)}

\* The XML files of the download directory, and their registry index.
XmlFiles == {f \in DOMAIN downloads : f[Len(f)] = 108}

FileIndex(f) == 100 * (f[1] - 48) + 10 * (f[2] - 48) + (f[3] - 48)

HasContestPrefix(xml) ==
  /\ Len(xml.contest) >= Len(CONTEST_PREFIX)
  /\ \A i \in 1..Len(CONTEST_PREFIX) : xml.contest[i] = CONTEST_PREFIX[i]

KnownVoteTypes(xml) ==
  \A i \in 1..Len(xml.voteTypes) : xml.voteTypes[i].name \in {"Overvotes", "Undervotes"}

NamesCandidate(text) ==
  \E c \in {TRUMP, BIDEN, JORGENSEN} :
    \E p \in 1..(Len(text) - Len(c) + 1) : \A q \in 1..Len(c) : text[p + q - 1] = c[q]

OnlyCandidates(xml) == \A i \in 1..Len(xml.choices) : NamesCandidate(xml.choices[i].text)

ChoiceVotes(xml) == sum([i \in 1..Len(xml.choices) |-> int(xml.choices[i].totalVotes)])

\* read_official_totals parsed the files in this run and has just returned
\* or raised.
OfficialJustParsed ==
  /\ pc = "read_rla"
  /\ log[Len(log)] = "writing json: cache/detailxml.json"

OfficialJustFailed ==
  /\ pc = "aborted"
  /\ error.info.at = "read_official_totals"

\* read_rla_totals scanned the CSV in this run and has just returned or
\* raised.
RlaJustParsed ==
  /\ pc = "correct"
  /\ log[Len(log)] = "writing json: cache/rla-totals.json"

RlaJustFailed ==
  /\ pc = "aborted"
  /\ error.info.at = "read_rla_totals"

\* ------------------------------------------------------------------------
\* Properties.
\* ------------------------------------------------------------------------

\* C1: in a report just written, the "ALL" row is the first row; of two
\* county rows the one with the larger |BC delta| comes first, and with
\* equal |BC delta| the one whose name is alphabetically smaller.
C1_ReportSortOrder ==
  pc = "done" =>
    LET Ordered(rows, bc) ==
          /\ rows[1][1] = ALL
          /\ \A i \in 2..Len(rows) : rows[i][1] # ALL
          /\ \A i \in 2..Len(rows) : \A j \in 2..Len(rows) :
               /\ abs(rows[i][bc]) > abs(rows[j][bc]) => i < j
               /\ (abs(rows[i][bc]) = abs(rows[j][bc]) /\ StrLess(rows[i][1], rows[j][1]))
                    => i < j
    IN  Ordered(output_csv.rows, Col("Delta", "BC"))

\* A report in which two counties have BC deltas of the same magnitude and
\* opposite sign, and two counties deltas of different magnitudes.
C1_Witness ==
  /\ pc = "done"
  /\ LET Tied(rows, bc) ==
           /\ \E i \in 2..Len(rows) : \E j \in 2..Len(rows) :
                rows[i][bc] > 0 /\ rows[j][bc] = -rows[i][bc]
           /\ \E i \in 2..Len(rows) : \E j \in 2..Len(rows) :
                abs(rows[i][bc]) # abs(rows[j][bc])
     IN  Tied(output_csv.rows, Col("Delta", "BC"))

\* C2: in a report just written, for each of TBJ, BC, Und, Ovr the deltas
\* of the county rows add up to the audit value minus the official value
\* of the "ALL" row, which is the delta of the "ALL" row.
C2_DeltasAddUp ==
  pc = "done" =>
    LET AddUp(rows) ==
          \A a \in 1..Len(rows) : rows[a][1] = ALL =>
            \A k \in 1..Len(VOTE_TOTAL_KEYS) :
              LET key == VOTE_TOTAL_KEYS[k]
                  Total(d) ==
                    /\ d = rows[a][Col("RLA", key)] - rows[a][Col("Ofc", key)]
                    /\ d = rows[a][Col("Delta", key)]
              IN  Total(sum([i \in 1..Len(rows) |->
                               IF rows[i][1] = ALL THEN 0 ELSE rows[i][Col("Delta", key)]]))
    IN  AddUp(output_csv.rows)

\* A report whose "ALL" row has a BC delta that is not 0 and counties with
\* deltas of both signs.
C2_Witness ==
  /\ pc = "done"
  /\ LET Mixed(rows, bc) ==
           /\ \E a \in 1..Len(rows) : rows[a][1] = ALL /\ rows[a][bc] # 0
           /\ \E i \in 1..Len(rows) : rows[i][1] # ALL /\ rows[i][bc] > 0
           /\ \E i \in 1..Len(rows) : rows[i][1] # ALL /\ rows[i][bc] < 0
     IN  Mixed(output_csv.rows, Col("Delta", "BC"))

\* C3: the audit totals that main hands to write_output are the totals of
\* the batch rows, with 119461 taken once from Gwinnett's BC and Und and
\* nothing else changed, in every run, with or without the cache file.
C3_CorrectionOnce ==
  pc = "write_output" =>
    LET Once(rows) ==
          /\ DOMAIN rla_totals.map = RegisteredNames
          /\ \A name \in RegisteredNames :
               /\ DOMAIN rla_totals.map[name] = SeqToSet(RLA_KEYS)
               /\ \A key \in SeqToSet(RLA_KEYS) :
                    rla_totals.map[name][key] =
                      RawAudit(rows, name, key)
                        - (IF name = GWINNETT /\ key \in {"BC", "Und"} THEN 119461 ELSE 0)
    IN  Once(BatchRows \o <<>>)

\* A later run, which loaded the audit totals from the cache file, hands
\* over the totals of a Gwinnett that has batch rows.
C3_Witness ==
  /\ pc = "write_output"
  /\ run >= 2
  /\ Logged("using cached data: cache/rla-totals.json")
  /\ rla_totals.map[GWINNETT]["BC"] + 119461 > 0

\* C4: the totals that read_rla_totals computes from the CSV hold, for each
\* county of the registry, TBJ = fields 0-2, BC = all 7 fields, InvW =
\* field 3, ValW = field 4, Und = field 5, Ovr = field 6, summed over the
\* rows of the county; a county without rows is present with six zeros.
C4_AuditAggregation ==
  RlaJustParsed =>
    LET Aggregated(rows) ==
          /\ DOMAIN rla_totals.map = RegisteredNames
          /\ \A name \in RegisteredNames :
               rla_totals.map[name] = [key \in SeqToSet(RLA_KEYS) |-> RawAudit(rows, name, key)]
    IN  Aggregated(BatchRows \o <<>>)

\* The CSV has two rows of one county, and counties without rows.
C4_Witness ==
  /\ RlaJustParsed
  /\ \E i \in 1..Len(BatchRows) : \E j \in 1..Len(BatchRows) :
       i # j /\ BatchRows[i].county = BatchRows[j].county
  /\ \E name \in RegisteredNames : \A key \in SeqToSet(RLA_KEYS) : rla_totals.map[name][key] = 0
  /\ \E name \in RegisteredNames : rla_totals.map[name]["Ovr"] > 0

RealCounties(totals) == (DOMAIN totals.map) \ {ALL}

\* C5: "ALL" is added and the report written only after the run found 159
\* counties in the audit totals and the same counties in the official
\* totals; a run whose check fails aborts with neither.
C5_CheckedBeforeAll ==
  /\ pc \in {"write_output", "done"} \/ (pc = "aborted" /\ error.info.at = "write_output") =>
       /\ Cardinality(RealCounties(rla_totals)) = 159
       /\ RealCounties(rla_totals) = RealCounties(official_totals)
  /\ pc \in {"read_rla", "correct", "check", "write_output"} => ~HasKey(official_totals, ALL)
  /\ pc \in {"correct", "check", "write_output"} => ~HasKey(rla_totals, ALL)
  /\ Logged("wrote: output.csv") => pc = "done"
  /\ pc = "aborted" /\ error.info.at = "main" /\ error.type = "AssertionError" =>
       /\ \/ Cardinality(DOMAIN rla_totals.map) # 159
          \/ DOMAIN rla_totals.map # DOMAIN official_totals.map
       /\ ~HasKey(official_totals, ALL)
       /\ ~HasKey(rla_totals, ALL)
       /\ ~Logged("wrote: output.csv")

\* A run that aborted at the check with 159 audit counties and another set
\* of official counties.
C5_Witness ==
  /\ pc = "aborted"
  /\ error.info.at = "main"
  /\ error.type = "AssertionError"
  /\ Cardinality(DOMAIN rla_totals.map) = 159
  /\ DOMAIN rla_totals.map # DOMAIN official_totals.map

\* C6: once parsed, every county of the official totals has all of TBJ, BC,
\* Und, Ovr, every county of the audit totals all of those and InvW, ValW,
\* and every value is >= 0.
C6_AllKeysNonNegative ==
  /\ official_totals # None =>
       \A name \in DOMAIN official_totals.map :
         /\ SeqToSet(VOTE_TOTAL_KEYS) \subseteq DOMAIN official_totals.map[name]
         /\ \A key \in DOMAIN official_totals.map[name] : official_totals.map[name][key] >= 0
  /\ rla_totals # None =>
       \A name \in DOMAIN rla_totals.map :
         /\ SeqToSet(RLA_KEYS) \subseteq DOMAIN rla_totals.map[name]
         /\ \A key \in DOMAIN rla_totals.map[name] : rla_totals.map[name][key] >= 0

\* The dict with its k-th key iterated first.
MoveToFront(totals, k) ==
  [totals EXCEPT !.keys = <<totals.keys[k]>> \o SubSeq(totals.keys, 1, k - 1)
                            \o SubSeq(totals.keys, k + 1, Len(totals.keys))]

\* The category-wise totals over the counties of a dict.
CategoryTotals(totals, keys) ==
  [key \in keys |->
     sum([k \in 1..Len(totals.keys) |->
            IF key \in DOMAIN totals.map[totals.keys[k]]
            THEN totals.map[totals.keys[k]][key] ELSE 0])]

OrderIndependent(totals, keys) ==
  \A k \in 1..Len(totals.keys) :
    compute_all_counties(MoveToFront(totals, k)) = Ok(CategoryTotals(totals, keys))

\* C7: whichever county of a totals set is iterated first,
\* compute_all_counties returns the same keys and sums, the category-wise
\* totals over the counties.
C7_AllOrderIndependent ==
  /\ pc = "read_rla" => OrderIndependent(official_totals, SeqToSet(VOTE_TOTAL_KEYS))
  /\ pc = "check" => OrderIndependent(rla_totals, SeqToSet(RLA_KEYS))

\* C8: a scan of the audit CSV that meets a row with a cell count other
\* than 10 raises an error with the 1-based number of that row, the first
\* such row; no audit cache file and no report exist afterwards.
C8_BadRowError ==
  /\ RlaJustParsed => \A i \in 2..Len(csv_lines) : Cells(csv_lines[i]) = 10
  /\ RlaJustFailed =>
       /\ error.info.line \in 1..(Len(csv_lines) - 1)
       /\ \A i \in 1..(error.info.line - 1) : Cells(csv_lines[i + 1]) = 10
       /\ error.type = "RuntimeError" <=> Cells(csv_lines[error.info.line + 1]) # 10
       /\ cache_rla = NoFile
       /\ output_csv = NoFile
       /\ rla_totals = None
       /\ ~Logged("writing json: cache/rla-totals.json")
       /\ ~Logged("wrote: output.csv")

\* The scan failed at the second batch row, after a good first row.
C8_Witness ==
  /\ RlaJustFailed
  /\ error.type = "RuntimeError"
  /\ error.info.line = 2

\* C9: read_official_totals raises at the first county file whose contest
\* name does not start with 'President of the United States'; the run
\* aborts with no official totals, no official cache file and no report.
C9_WrongContestError ==
  /\ OfficialJustParsed => \A f \in XmlFiles : HasContestPrefix(downloads[f])
  /\ OfficialJustFailed =>
       /\ error.type = "RuntimeError"
       /\ error.info.reading \in XmlFiles
       /\ error.info.cause = "RuntimeError" <=> ~HasContestPrefix(downloads[error.info.reading])
       /\ \A f \in XmlFiles :
            FileIndex(f) < FileIndex(error.info.reading) => HasContestPrefix(downloads[f])
       /\ official_totals = None
       /\ cache_official = NoFile
       /\ output_csv = NoFile
       /\ log = <<>>

\* The run aborted at a file with another contest, and a later file fails
\* to parse as well.
C9_Witness ==
  /\ OfficialJustFailed
  /\ error.info.cause = "RuntimeError"
  /\ \E f \in XmlFiles :
       /\ FileIndex(f) > FileIndex(error.info.reading)
       /\ ~OnlyCandidates(downloads[f])

\* C10: the TBJ of a county is the sum of the votes of all its choices, and
\* every choice names Trump, Biden or Jorgensen; a file with any other
\* choice makes the run abort, with no official totals, no official cache
\* file and no report.
C10_OnlyExpectedCandidates ==
  /\ OfficialJustParsed =>
       LET Summed(index_to_name) ==
             \A f \in XmlFiles :
               /\ OnlyCandidates(downloads[f])
               /\ official_totals.map[index_to_name[FileIndex(f)]]["TBJ"] = ChoiceVotes(downloads[f])
               /\ cache_official.map[index_to_name[FileIndex(f)]]["TBJ"] = ChoiceVotes(downloads[f])
       IN  Summed(get_index_to_county_name(counties_data) @@ <<>>)
  /\ OfficialJustFailed =>
       /\ error.info.cause = "AssertionError" <=>
            /\ HasContestPrefix(downloads[error.info.reading])
            /\ KnownVoteTypes(downloads[error.info.reading])
            /\ ~OnlyCandidates(downloads[error.info.reading])
       /\ \A f \in XmlFiles :
            FileIndex(f) < FileIndex(error.info.reading) => OnlyCandidates(downloads[f])
       /\ official_totals = None
       /\ cache_official = NoFile
       /\ output_csv = NoFile
       /\ ~Logged("writing json: cache/detailxml.json")

\* The run aborted at a file with a choice that names none of the three.
C10_Witness ==
  /\ OfficialJustFailed
  /\ error.info.cause = "AssertionError"
  /\ ~OnlyCandidates(downloads[error.info.reading])

====
